---- MODULE Spec2Model ----
(***************************************************************************)
(* A model of the cache simulator csim: the driver main, the construction  *)
(* and teardown of the cache (cache_init, cache_free) and the replacement  *)
(* engine cache_sim with its LRU counters and dirty-byte accounting.       *)
(*                                                                         *)
(* Encodings.  A set's lines are a function over 0..E-1 (the C indices).   *)
(* An unsigned long is encoded by an integer congruent to it modulo 2^64:  *)
(* every magnitude of the model is far below 2^31, so a negative integer   *)
(* -k stands for the wrapped value 2^64 - k, and "x >= 0" says that the    *)
(* unsigned counter x has not wrapped around.                              *)
(***************************************************************************)
EXTENDS Integers, Sequences, FiniteSets, TLC

\* Largest number of set index bits given on the command line.
MaxS == 1
\* Largest associativity given on the command line.
MaxE == 3
\* Largest number of block bits given on the command line.
MaxB == 1
\* Largest address of a trace record.
MaxAddr == 3
\* Largest number of records the trace file holds.
MaxTrace == 5
\* Largest size field of a trace record (the smallest is 1).
MaxSize == 2

VARIABLES
    pc,               \* where main is
    s, E, b,          \* main's locals s, E, b after getopt
    tracefile,        \* main's local tracefile after getopt: "NULL" or "path"
    cache,            \* main's pointer cache: "unset", "NULL", "alloc" or "freed"
    sets,             \* cache->sets: set index -> (line index -> line_t)
    heap,             \* the blocks malloc returned that free has not released
    freed,            \* every block handed to free, in call order
    nread,            \* how many records fscanf has read
    nsim,             \* how many times cache_sim has been called
    rec,              \* the record fscanf read last: access_type and address
    replay,           \* the records read so far while they begin a spec scenario
    hit, miss, eviction, dirty_bytes, dirty_evictions,   \* the global counters
    last,             \* the latest cache_sim call: its arguments, its outcome, the state before it
    summary,          \* what printSummary was given, or <<>> when it was not called
    ref,              \* a true-LRU reference cache: set index -> blocks, most recent first
    refLast,          \* the reference cache's outcome for the latest access
    run,              \* the accesses so far while they stay in one set with distinct tags
    order,            \* per set, the lines touched so far, the latest first
    nstore,           \* the number of Store records simulated
    dec,              \* one evaluation of the address decoding at the C widths
    tr                \* one call of a transpose function of trans.c

vars == <<pc, s, E, b, tracefile, cache, sets, heap, freed, nread, nsim, rec,
          replay, hit, miss, eviction, dirty_bytes, dirty_evictions, last,
          summary, ref, refLast, run, order, nstore, dec, tr>>

----------------------------------------------------------------------------
\* Arithmetic helpers.

\* 1 << n on an int; exact for 0 <= n <= 30, which covers every geometry here.
Pow2(n) == 2 ^ n

Min(S) == CHOOSE x \in S : \A y \in S : x <= y

\* unsigned long B = (unsigned long)(1 << b)
BlockSize(b_) == Pow2(b_)

\* (address >> b) & ((1 << s) - 1)
SetIndex(address, s_, b_) == (address \div Pow2(b_)) % Pow2(s_)

\* address >> (s + b)
Tag(address, s_, b_) == address \div Pow2(s_ + b_)

----------------------------------------------------------------------------
\* Heap blocks and cache construction / teardown.

Block(kind, i) == [kind |-> kind, i |-> i]
CacheBlock == Block("cache", 0)
SetsBlock == Block("sets", 0)
LinesBlock(i) == Block("lines", i)
NoFail == Block("none", 0)

\* The malloc calls of cache_init that may return NULL (NoFail: none does).
MallocPoints(s_) ==
    {NoFail, CacheBlock, SetsBlock} \cup {LinesBlock(i) : i \in 0 .. Pow2(s_) - 1}

\* A line as cache_init leaves it.
InitLine == [valid |-> 0, dirty_bit |-> 0, tag |-> 0, LRU_counter |-> 0]

\* cache_init(s, E, b) when the malloc call for block fail returns NULL.
\* The result: the returned pointer, the set array it points to, the blocks
\* still allocated and the blocks released on the way.
cache_init(s_, E_, b_, fail) ==
    LET S == Pow2(s_) IN
    IF fail = CacheBlock THEN
        [cache |-> "NULL", sets |-> <<>>, heap |-> {}, freed |-> <<>>]
    ELSE IF fail = SetsBlock THEN
        [cache |-> "NULL", sets |-> <<>>, heap |-> {}, freed |-> <<CacheBlock>>]
    ELSE IF fail.kind = "lines" THEN
        [cache |-> "NULL", sets |-> <<>>,
         heap  |-> {LinesBlock(j) : j \in 0 .. fail.i - 1},
         freed |-> <<SetsBlock, CacheBlock>>]
    ELSE
        [cache |-> "alloc",
         sets  |-> [i \in 0 .. S - 1 |-> [j \in 0 .. E_ - 1 |-> InitLine]],
         heap  |-> {CacheBlock, SetsBlock} \cup {LinesBlock(i) : i \in 0 .. S - 1},
         freed |-> <<>>]

\* cache_free releasing the set array before the line arrays.
cache_free_order_SetsFirst(s_) ==
    [k \in 1 .. Pow2(s_) + 2 |->
        IF k = 1 THEN SetsBlock
        ELSE IF k <= Pow2(s_) + 1 THEN LinesBlock(k - 2) ELSE CacheBlock]

\* The free calls of cache_free, in order: every line array, the set array,
\* the cache struct.
cache_free_order(s_) ==
    [k \in 1 .. Pow2(s_) + 2 |->
        IF k <= Pow2(s_) THEN LinesBlock(k - 1)
        ELSE IF k = Pow2(s_) + 1 THEN SetsBlock ELSE CacheBlock]

----------------------------------------------------------------------------
\* The replacement engine.

Aged(line) == [line EXCEPT !.LRU_counter = @ + 1]

\* add_LRU_counter whose loop starts one line late.
add_LRU_counter_SkipFirst(lines, begin_index, end_index) ==
    [i \in DOMAIN lines |->
        IF begin_index < i /\ i < end_index THEN Aged(lines[i]) ELSE lines[i]]

add_LRU_counter(lines, begin_index, end_index) ==
    [i \in DOMAIN lines |->
        IF begin_index <= i /\ i < end_index THEN Aged(lines[i]) ELSE lines[i]]

\* HitScan with the test of the valid bit left out of the comparison.
HitScan_IgnoreValid(lines, tag, E_) ==
    LET found == {i \in 0 .. E_ - 1 : lines[i].tag = tag}
        hit_flag == IF found = {} THEN 0 ELSE 1
        hit_index == IF found = {} THEN 0 ELSE Min(found)
        visited == IF found = {} THEN E_ ELSE hit_index
    IN  [hit_flag |-> hit_flag, hit_index |-> hit_index,
         lines |-> [i \in DOMAIN lines |->
                      IF i < visited THEN Aged(lines[i])
                      ELSE IF hit_flag = 1 /\ i = hit_index
                           THEN [lines[i] EXCEPT !.LRU_counter = 0]
                           ELSE lines[i]]]

\* HitScan that compares the tag of line 0 only.
HitScan_FirstLineOnly(lines, tag, E_) ==
    LET found == {i \in {0} : lines[i].tag = tag /\ lines[i].valid = 1}
        hit_flag == IF found = {} THEN 0 ELSE 1
        hit_index == IF found = {} THEN 0 ELSE Min(found)
        visited == IF found = {} THEN E_ ELSE hit_index
    IN  [hit_flag |-> hit_flag, hit_index |-> hit_index,
         lines |-> [i \in DOMAIN lines |->
                      IF i < visited THEN Aged(lines[i])
                      ELSE IF hit_flag = 1 /\ i = hit_index
                           THEN [lines[i] EXCEPT !.LRU_counter = 0]
                           ELSE lines[i]]]

\* The first loop of cache_sim: stop at the first valid line holding tag,
\* reset its counter; every line visited before it is aged.
HitScan(lines, tag, E_) ==
    LET found == {i \in 0 .. E_ - 1 : lines[i].tag = tag /\ lines[i].valid = 1}
        hit_flag == IF found = {} THEN 0 ELSE 1
        hit_index == IF found = {} THEN 0 ELSE Min(found)
        visited == IF found = {} THEN E_ ELSE hit_index
    IN  [hit_flag |-> hit_flag, hit_index |-> hit_index,
         lines |-> [i \in DOMAIN lines |->
                      IF i < visited THEN Aged(lines[i])
                      ELSE IF hit_flag = 1 /\ i = hit_index
                           THEN [lines[i] EXCEPT !.LRU_counter = 0]
                           ELSE lines[i]]]

\* EmptyScan whose fill forgets valid = 1.
EmptyScan_NoValid(lines, tag, E_) ==
    LET found == {i \in 0 .. E_ - 1 : lines[i].valid = 0}
        flag == IF found = {} THEN 0 ELSE 1
        index == IF found = {} THEN 0 ELSE Min(found)
        visited == IF found = {} THEN E_ ELSE index
    IN  [flag |-> flag, index |-> index,
         lines |-> [i \in DOMAIN lines |->
                      IF i < visited THEN Aged(lines[i])
                      ELSE IF flag = 1 /\ i = index
                           THEN [lines[i] EXCEPT !.tag = tag, !.LRU_counter = 0]
                           ELSE lines[i]]]

\* EmptyScan that keeps scanning and fills the last invalid line it meets.
EmptyScan_LastInvalid(lines, tag, E_) ==
    LET found == {i \in 0 .. E_ - 1 : lines[i].valid = 0}
        flag == IF found = {} THEN 0 ELSE 1
        index == IF found = {} THEN 0 ELSE 0 - Min({0 - i : i \in found})
        visited == IF found = {} THEN E_ ELSE index
    IN  [flag |-> flag, index |-> index,
         lines |-> [i \in DOMAIN lines |->
                      IF i < visited THEN Aged(lines[i])
                      ELSE IF flag = 1 /\ i = index
                           THEN [lines[i] EXCEPT !.valid = 1, !.tag = tag,
                                                 !.LRU_counter = 0]
                           ELSE lines[i]]]

\* The second loop of cache_sim: stop at the first invalid line and install
\* the block there; every line visited before it is aged.
EmptyScan(lines, tag, E_) ==
    LET found == {i \in 0 .. E_ - 1 : lines[i].valid = 0}
        flag == IF found = {} THEN 0 ELSE 1
        index == IF found = {} THEN 0 ELSE Min(found)
        visited == IF found = {} THEN E_ ELSE index
    IN  [flag |-> flag, index |-> index,
         lines |-> [i \in DOMAIN lines |->
                      IF i < visited THEN Aged(lines[i])
                      ELSE IF flag = 1 /\ i = index
                           THEN [lines[i] EXCEPT !.valid = 1, !.tag = tag,
                                                 !.LRU_counter = 0]
                           ELSE lines[i]]]

\* The third loop of cache_sim, from line i on: max_counter is read once
\* from line 0 and the loop never assigns it again.
RECURSIVE EvictScan(_, _, _, _, _)
EvictScan(lines, E_, i, evict_index, max_counter) ==
    IF i >= E_ THEN evict_index
    ELSE EvictScan(lines, E_, i + 1,
                   IF lines[i].LRU_counter > max_counter THEN i ELSE evict_index,
                   max_counter)

FindEvictIndex(lines, E_) == EvictScan(lines, E_, 1, 0, lines[0].LRU_counter)

\* DirtyOnHit without the test that the line was clean.
DirtyOnHit_EveryStore(lines, hit_index, access_type, B, g) ==
    IF access_type = "S"
    THEN [lines |-> [lines EXCEPT ![hit_index].dirty_bit = 1],
          g |-> [g EXCEPT !.dirty_bytes = @ + B]]
    ELSE [lines |-> lines, g |-> g]

\* Dirty accounting of a hit on line hit_index.
DirtyOnHit(lines, hit_index, access_type, B, g) ==
    IF access_type = "S" /\ lines[hit_index].dirty_bit = 0
    THEN [lines |-> [lines EXCEPT ![hit_index].dirty_bit = 1],
          g |-> [g EXCEPT !.dirty_bytes = @ + B]]
    ELSE [lines |-> lines, g |-> g]

\* DirtyOnFill that sets the dirty bit and forgets dirty_bytes += B.
DirtyOnFill_NoCount(lines, index, access_type, B, g) ==
    IF access_type = "S"
    THEN [lines |-> [lines EXCEPT ![index].dirty_bit = 1], g |-> g]
    ELSE [lines |-> lines, g |-> g]

\* Dirty accounting of a fill of the invalid line index.
DirtyOnFill(lines, index, access_type, B, g) ==
    IF access_type = "S"
    THEN [lines |-> [lines EXCEPT ![index].dirty_bit = 1],
          g |-> [g EXCEPT !.dirty_bytes = @ + B]]
    ELSE [lines |-> lines, g |-> g]

\* DirtyOnEvict where a Load over a dirty victim forgets dirty_bytes -= B.
DirtyOnEvict_NoSubtract(lines, evict_index, access_type, B, g) ==
    IF lines[evict_index].dirty_bit = 0 /\ access_type = "S"
    THEN [lines |-> [lines EXCEPT ![evict_index].dirty_bit = 1],
          g |-> [g EXCEPT !.dirty_bytes = @ + B]]
    ELSE IF lines[evict_index].dirty_bit = 1 /\ access_type = "L"
    THEN [lines |-> [lines EXCEPT ![evict_index].dirty_bit = 0],
          g |-> [g EXCEPT !.dirty_evictions = @ + B]]
    ELSE IF lines[evict_index].dirty_bit = 1 /\ access_type = "S"
    THEN [lines |-> lines, g |-> [g EXCEPT !.dirty_evictions = @ + B]]
    ELSE [lines |-> lines, g |-> g]

\* DirtyOnEvict where a Store over a dirty victim counts no write-back.
DirtyOnEvict_StoreSilent(lines, evict_index, access_type, B, g) ==
    IF lines[evict_index].dirty_bit = 0 /\ access_type = "S"
    THEN [lines |-> [lines EXCEPT ![evict_index].dirty_bit = 1],
          g |-> [g EXCEPT !.dirty_bytes = @ + B]]
    ELSE IF lines[evict_index].dirty_bit = 1 /\ access_type = "L"
    THEN [lines |-> [lines EXCEPT ![evict_index].dirty_bit = 0],
          g |-> [g EXCEPT !.dirty_bytes = @ - B, !.dirty_evictions = @ + B]]
    ELSE [lines |-> lines, g |-> g]

\* Dirty accounting of the eviction of line evict_index.
DirtyOnEvict(lines, evict_index, access_type, B, g) ==
    IF lines[evict_index].dirty_bit = 0 /\ access_type = "S"
    THEN [lines |-> [lines EXCEPT ![evict_index].dirty_bit = 1],
          g |-> [g EXCEPT !.dirty_bytes = @ + B]]
    ELSE IF lines[evict_index].dirty_bit = 1
    THEN IF access_type = "L"
         THEN [lines |-> [lines EXCEPT ![evict_index].dirty_bit = 0],
               g |-> [g EXCEPT !.dirty_bytes = @ - B, !.dirty_evictions = @ + B]]
         ELSE IF access_type = "S"
         THEN [lines |-> [lines EXCEPT ![evict_index].dirty_bit = 1],
               g |-> [g EXCEPT !.dirty_evictions = @ + B]]
         ELSE [lines |-> lines, g |-> g]
    ELSE [lines |-> lines, g |-> g]

\* Evict that forgets LRU_counter = 0 on the line it overwrites.
Evict_NoReset(lines, tag, E_, access_type, B, g) ==
    LET evict_index == FindEvictIndex(lines, E_)
        l1 == [lines EXCEPT ![evict_index].tag = tag]
        l2 == add_LRU_counter(l1, 0, evict_index)
        l3 == add_LRU_counter(l2, evict_index + 1, E_)
        d  == DirtyOnEvict(l3, evict_index, access_type, B, g)
    IN  [lines |-> d.lines, g |-> d.g, res |-> "evict", idx |-> evict_index,
         victim |-> lines[evict_index].tag]

\* The eviction path of cache_sim, entered with both scans done.
Evict(lines, tag, E_, access_type, B, g) ==
    LET evict_index == FindEvictIndex(lines, E_)
        l1 == [lines EXCEPT ![evict_index].tag = tag,
                            ![evict_index].LRU_counter = 0]
        l2 == add_LRU_counter(l1, 0, evict_index)
        l3 == add_LRU_counter(l2, evict_index + 1, E_)
        d  == DirtyOnEvict(l3, evict_index, access_type, B, g)
    IN  [lines |-> d.lines, g |-> d.g, res |-> "evict", idx |-> evict_index,
         victim |-> lines[evict_index].tag]

CountHit(g) == [g EXCEPT !.hit = @ + 1]

CountMiss(g) == [g EXCEPT !.miss = @ + 1]

\* CountEviction that counts nothing.
CountEviction_None(g) == [g EXCEPT !.eviction = @]

\* CountEviction counting the miss a second time.
CountEviction_MissAgain(g) == [g EXCEPT !.eviction = @ + 1, !.miss = @ + 1]

CountEviction(g) == [g EXCEPT !.eviction = @ + 1]

\* cache_sim(access_type, set_access, tag, E, b, verbose) on the set's lines
\* and the global counters g.  res is what verbose mode prints.
cache_sim(access_type, lines, tag, E_, b_, g) ==
    LET B  == BlockSize(b_)
        h  == HitScan(lines, tag, E_)
    IN  IF h.hit_flag = 1 THEN
            LET d == DirtyOnHit(add_LRU_counter(h.lines, h.hit_index + 1, E_),
                                h.hit_index, access_type, B,
                                CountHit(g))
            IN  [lines |-> d.lines, g |-> d.g, res |-> "hit",
                 idx |-> h.hit_index, victim |-> -1]
        ELSE
            LET g1 == CountMiss(g)
                e  == EmptyScan(h.lines, tag, E_)
            IN  IF e.flag = 1 THEN
                    LET d == DirtyOnFill(add_LRU_counter(e.lines, e.index + 1, E_),
                                         e.index, access_type, B, g1)
                    IN  [lines |-> d.lines, g |-> d.g, res |-> "miss",
                         idx |-> e.index, victim |-> -1]
                ELSE Evict(e.lines, tag, E_, access_type, B,
                           CountEviction(g1))

----------------------------------------------------------------------------
\* The reference: a true-LRU set of capacity E_, most recently used first.

Range(q) == {q[i] : i \in 1 .. Len(q)}

Without(q, x) == SelectSeq(q, LAMBDA y : y # x)

RefAccess(q, tag, E_) ==
    IF tag \in Range(q) THEN
        [q |-> <<tag>> \o Without(q, tag), res |-> "hit", victim |-> -1]
    ELSE IF Len(q) < E_ THEN
        [q |-> <<tag>> \o q, res |-> "miss", victim |-> -1]
    ELSE
        [q |-> <<tag>> \o SubSeq(q, 1, Len(q) - 1), res |-> "evict",
         victim |-> q[Len(q)]]

----------------------------------------------------------------------------
\* The driver.

Globals == [hit |-> hit, miss |-> miss, eviction |-> eviction,
            dirty_bytes |-> dirty_bytes, dirty_evictions |-> dirty_evictions]

Records == [kind : {"L", "S", "I"}, addr : 0 .. MaxAddr, size : 1 .. MaxSize]

NoAccess == [res |-> "none"]

NoRecord == [kind |-> "none", addr |-> 0, size |-> 0]

\* The check of the earlier draft of main: s <= 0 || E <= 0 || b <= 0 || t == NULL
InvalidInput_Draft(s_, E_, b_, tracefile_) ==
    s_ <= 0 \/ E_ <= 0 \/ b_ <= 0 \/ tracefile_ = "NULL"

\* s < 0 || E <= 0 || b < 0 || tracefile == NULL
InvalidInput(s_, E_, b_, tracefile_) ==
    s_ < 0 \/ E_ <= 0 \/ b_ < 0 \/ tracefile_ = "NULL"

\* CallArgs handing the record's size field to cache_sim in place of b.
CallArgs_SizeForB(r, s_, E_, b_) ==
    [access_type |-> r.kind, set_index |-> SetIndex(r.addr, s_, b_),
     tag |-> Tag(r.addr, s_, b_), E |-> E_, b |-> r.size]

\* What main computes from record r and hands to cache_sim: the size field
\* goes to the verbose printf only.
CallArgs(r, s_, E_, b_) ==
    [access_type |-> r.kind, set_index |-> SetIndex(r.addr, s_, b_),
     tag |-> Tag(r.addr, s_, b_), E |-> E_, b |-> b_]

\* The test written (access_type == 'L') || 'S', which C takes as true.
WellFormed_AlwaysTrue(access_type) == access_type = "L" \/ TRUE

\* (access_type == 'L') || (access_type == 'S')
WellFormed(access_type) == access_type \in {"L", "S"}

\* The first scenario of the spec's testable properties, run with s=1, E=1, b=0.
Scenario7 == << [kind |-> "L", addr |-> 0], [kind |-> "L", addr |-> 1],
               [kind |-> "L", addr |-> 2], [kind |-> "L", addr |-> 0] >>

\* The second scenario, same geometry.
Scenario15 == << [kind |-> "S", addr |-> 0], [kind |-> "L", addr |-> 0] >>

Scenarios == {Scenario7, Scenario15}

\* A record as the spec's scenarios write it: kind and address.
Bare(r) == [kind |-> r.kind, addr |-> r.addr]

Untracked == << Bare(NoRecord) >>

\* replay after record r: the records read so far as long as some scenario
\* begins with them, Untracked from then on.
Follow(t, r) ==
    LET u == Append(t, Bare(r)) IN
    IF t # Untracked /\ \E sc \in Scenarios :
                           Len(u) <= Len(sc) /\ SubSeq(sc, 1, Len(u)) = u
    THEN u ELSE Untracked

\* WriteBack storing the lines into every set.
WriteBack_EverySet(sets_, set_index, lines) == [i \in DOMAIN sets_ |-> lines]

\* cache_sim works through set_access = &(cache->sets[set_index]): the
\* lines it leaves are those of set set_index.
WriteBack(sets_, set_index, lines) == [sets_ EXCEPT ![set_index] = lines]

\* The lines of a set touched so far, the latest first, after line idx is
\* hit, filled or overwritten.
Touch(q, idx) == <<idx>> \o Without(q, idx)

NoRun == [ok |-> FALSE, set |-> -1, tags |-> {}]

\* run after an access to (set_index, tag): all accesses so far, as long as
\* they went to one set with pairwise distinct tags; NoRun from then on.
Extend(r_, set_index, tag) ==
    IF r_.ok /\ (r_.tags = {} \/ r_.set = set_index) /\ tag \notin r_.tags
    THEN [ok |-> TRUE, set |-> set_index, tags |-> r_.tags \cup {tag}]
    ELSE NoRun

NoDecode == [out |-> "off"]

NoCall == [pc |-> "off"]

Init ==
    /\ pc = "args"
    /\ tracefile \in {"NULL", "path"}
    /\ run = [ok |-> TRUE, set |-> -1, tags |-> {}]
    /\ order = <<>>
    /\ nstore = 0
    /\ dec = NoDecode
    /\ tr = NoCall
    /\ s \in -1 .. MaxS
    /\ E \in 0 .. MaxE
    /\ b \in -1 .. MaxB
    /\ cache = "unset"
    /\ sets = <<>>
    /\ heap = {}
    /\ freed = <<>>
    /\ nread = 0
    /\ nsim = 0
    /\ rec = NoRecord
    /\ replay = <<>>
    /\ hit = 0 /\ miss = 0 /\ eviction = 0
    /\ dirty_bytes = 0 /\ dirty_evictions = 0
    /\ last = NoAccess
    /\ summary = <<>>
    /\ ref = <<>>
    /\ refLast = NoAccess

\* main: the check of the arguments.
CheckArgs ==
    /\ pc = "args"
    /\ pc' = IF InvalidInput(s, E, b, tracefile) THEN "exit_invalid" ELSE "init"
    /\ UNCHANGED <<tracefile, run, nstore, dec, tr>>
    /\ UNCHANGED <<s, E, b, cache, sets, heap, freed, nread, nsim, rec, replay,
                   hit, miss, eviction, dirty_bytes, dirty_evictions, last,
                   summary, ref, refLast, order>>

\* main: cache_t *cache = cache_init(s, E, b); the result is not tested.
CacheInit ==
    /\ pc = "init"
    /\ \E fail \in MallocPoints(s) :
          LET r == cache_init(s, E, b, fail) IN
          /\ cache' = r.cache
          /\ sets' = r.sets
          /\ heap' = r.heap
          /\ freed' = r.freed
          /\ ref' = IF r.cache = "alloc" THEN [i \in 0 .. Pow2(s) - 1 |-> <<>>] ELSE <<>>
          /\ order' = IF r.cache = "alloc" THEN [i \in 0 .. Pow2(s) - 1 |-> <<>>] ELSE <<>>
    /\ pc' = "open"
    /\ UNCHANGED <<tracefile, run, nstore, dec, tr>>
    /\ UNCHANGED <<s, E, b, nread, nsim, rec, replay, hit, miss, eviction,
                   dirty_bytes, dirty_evictions, last, summary, refLast>>

\* main: fopen of the trace file.
OpenTrace ==
    /\ pc = "open"
    /\ \E ok \in BOOLEAN : pc' = IF ok THEN "loop" ELSE "exit_open"
    /\ UNCHANGED <<tracefile, run, nstore, dec, tr>>
    /\ UNCHANGED <<s, E, b, cache, sets, heap, freed, nread, nsim, rec, replay,
                   hit, miss, eviction, dirty_bytes, dirty_evictions, last,
                   summary, ref, refLast, order>>

\* main: one iteration of the fscanf loop, on record r.
ReadRecord(r) ==
    /\ pc = "loop"
    /\ nread < MaxTrace
    /\ nread' = nread + 1
    /\ rec' = Bare(r)
    /\ replay' = Follow(replay, r)
    /\ IF cache = "NULL" THEN
          \* &(cache->sets[set_index]) reads through the null pointer
          /\ pc' = "null_deref"
          /\ UNCHANGED <<sets, nsim, hit, miss, eviction, dirty_bytes,
                         dirty_evictions, last, ref, refLast, run, order, nstore>>
       ELSE IF WellFormed(r.kind) THEN
          LET a == CallArgs(r, s, E, b)
              set_index == a.set_index
              tag == a.tag
              c == cache_sim(a.access_type, sets[set_index], tag, a.E, a.b, Globals)
              f == RefAccess(ref[set_index], tag, E)
          IN  /\ sets' = WriteBack(sets, set_index, c.lines)
              /\ run' = Extend(run, set_index, tag)
              /\ order' = [order EXCEPT ![set_index] = Touch(@, c.idx)]
              /\ nstore' = IF a.access_type = "S" THEN nstore + 1 ELSE nstore
              /\ nsim' = nsim + 1
              /\ hit' = c.g.hit
              /\ miss' = c.g.miss
              /\ eviction' = c.g.eviction
              /\ dirty_bytes' = c.g.dirty_bytes
              /\ dirty_evictions' = c.g.dirty_evictions
              /\ last' = [res |-> c.res, kind |-> a.access_type, set |-> set_index,
                          tag |-> tag, idx |-> c.idx, victim |-> c.victim,
                          old |-> sets, g |-> Globals]
              /\ ref' = [ref EXCEPT ![set_index] = f.q]
              /\ refLast' = [res |-> f.res, victim |-> f.victim]
              /\ pc' = "loop"
       ELSE
          /\ pc' = "exit_trace"
          /\ UNCHANGED <<sets, nsim, hit, miss, eviction, dirty_bytes,
                         dirty_evictions, last, ref, refLast, run, order, nstore>>
    /\ UNCHANGED <<s, E, b, tracefile, cache, heap, freed, summary, dec, tr>>

\* main: fscanf finds no further record: fclose, cache_free, printSummary.
EndOfTrace ==
    /\ pc = "loop"
    /\ IF cache = "NULL" THEN
          \* cache_free reads cache->s through the null pointer
          /\ pc' = "null_deref"
          /\ UNCHANGED <<cache, sets, heap, freed, summary>>
       ELSE
          /\ freed' = freed \o cache_free_order(s)
          /\ heap' = heap \ Range(cache_free_order(s))
          /\ cache' = "freed"
          /\ sets' = <<>>
          /\ summary' = <<Globals>>
          /\ pc' = "done"
    /\ UNCHANGED <<tracefile, run, nstore, dec, tr>>
    /\ UNCHANGED <<s, E, b, nread, nsim, rec, replay, hit, miss, eviction,
                   dirty_bytes, dirty_evictions, last, ref, refLast, order>>

Next ==
    \/ CheckArgs
    \/ CacheInit
    \/ OpenTrace
    \/ \E r \in Records : ReadRecord(r)
    \/ EndOfTrace

Spec == Init /\ [][Next]_vars

----------------------------------------------------------------------------
\* The address arithmetic at the widths of the C types: int is IntBits wide,
\* unsigned long is LongBits wide.  An int is an integer of IntMin .. IntMax;
\* an unsigned long is the function from bit positions to bits.

IntBits == 32
LongBits == 64

IntMax == (2 ^ (IntBits - 2) - 1) + 2 ^ (IntBits - 2)
IntMin == (0 - IntMax) - 1

Bits == 0 .. LongBits - 1

\* The outcomes of 1 << n on int.  The result is defined for n < IntBits - 1.
\* For n = IntBits - 1 the build sets the sign bit.  For n >= IntBits the
\* shift instruction either takes the count modulo IntBits or shifts the
\* bit out.
ShiftOne(n) ==
    IF n < IntBits - 1 THEN {2 ^ n}
    ELSE IF n = IntBits - 1 THEN {IntMin}
    ELSE {0, IF n % IntBits = IntBits - 1 THEN IntMin ELSE 2 ^ (n % IntBits)}

\* x - 1 on int; IntMin - 1 overflows and the build's subtraction wraps.
MinusOne(x) == IF x = IntMin THEN IntMax ELSE x - 1

\* The conversion of an int to unsigned long: two's complement, sign extended.
ToUnsignedLong(x) ==
    [i \in Bits |-> IF i < IntBits - 1 THEN (x \div (2 ^ i)) % 2
                    ELSE IF x < 0 THEN 1 ELSE 0]

\* v >> n on unsigned long, 0 <= n < LongBits.
ShiftRight(v, n) == [i \in Bits |-> IF i + n < LongBits THEN v[i + n] ELSE 0]

\* v & w on unsigned long.
BitAnd(v, w) == [i \in Bits |-> v[i] * w[i]]

\* (address >> b) & ((1 << s) - 1), where 1 << s gave the int one.
set_index_of(address, b_, one) ==
    BitAnd(ShiftRight(address, b_), ToUnsignedLong(MinusOne(one)))

\* address >> (s + b)
tag_of(address, s_, b_) == ShiftRight(address, s_ + b_)

\* (unsigned long)(1 << b), where 1 << b gave the int one.
B_of(one) == ToUnsignedLong(one)

\* The number of sets cache_init allocates when int S = 1 << s gave S_: the
\* loop runs for i < S_, and a negative S_ asks malloc for more than the
\* address space.
AllocatedSets(S_) == IF S_ > 0 THEN S_ ELSE 0

\* The addresses decoded: all ones, zero, alternating bits, single bits at
\* the ends and on both sides of the int width.
Addresses ==
    {[i \in Bits |-> 1], [i \in Bits |-> 0],
     [i \in Bits |-> i % 2], [i \in Bits |-> (i + 1) % 2]}
    \cup {[i \in Bits |-> IF i = k THEN 1 ELSE 0] :
             k \in {0, IntBits - 1, IntBits, LongBits - 1}}

\* The variables of the simulator.
simVars == <<pc, s, E, b, tracefile, cache, sets, heap, freed, nread, nsim, rec,
             replay, hit, miss, eviction, dirty_bytes, dirty_evictions, last,
             summary, ref, refLast, run, order, nstore>>

\* The simulator is not running.
Parked ==
    /\ pc = "off"
    /\ s = 0 /\ E = 0 /\ b = 0
    /\ tracefile = "NULL"
    /\ cache = "unset"
    /\ sets = <<>>
    /\ heap = {}
    /\ freed = <<>>
    /\ nread = 0 /\ nsim = 0
    /\ rec = NoRecord
    /\ replay = <<>>
    /\ hit = 0 /\ miss = 0 /\ eviction = 0
    /\ dirty_bytes = 0 /\ dirty_evictions = 0
    /\ last = NoAccess
    /\ summary = <<>>
    /\ ref = <<>>
    /\ refLast = NoAccess
    /\ run = NoRun
    /\ order = <<>>
    /\ nstore = 0

InitDecode ==
    /\ Parked
    /\ tr = NoCall
    /\ \E address \in Addresses, s_ \in Bits, b_ \in Bits :
          /\ s_ + b_ < LongBits
          /\ dec = [out |-> "init", address |-> address, s |-> s_, b |-> b_,
                    S |-> 0, set_index |-> address, tag |-> address,
                    B |-> address]

\* cache_init: int S = 1 << s.
DecodeInit ==
    /\ dec.out = "init"
    /\ \E one \in ShiftOne(dec.s) : dec' = [dec EXCEPT !.out = "read", !.S = one]
    /\ UNCHANGED <<simVars, tr>>

\* main: set_index and tag of the address read.
DecodeRecord ==
    /\ dec.out = "read"
    /\ \E one \in ShiftOne(dec.s) :
          dec' = [dec EXCEPT !.out = "sim",
                             !.set_index = set_index_of(dec.address, dec.b, one),
                             !.tag = tag_of(dec.address, dec.s, dec.b)]
    /\ UNCHANGED <<simVars, tr>>

\* cache_sim: unsigned long B = (unsigned long)(1 << b).
DecodeBlock ==
    /\ dec.out = "sim"
    /\ \E one \in ShiftOne(dec.b) : dec' = [dec EXCEPT !.out = "done", !.B = B_of(one)]
    /\ UNCHANGED <<simVars, tr>>

NextDecode ==
    \/ DecodeInit
    \/ DecodeRecord
    \/ DecodeBlock

SpecDecode == InitDecode /\ [][NextDecode]_vars

\* The value of the bits of v below position n, n < IntBits.
RECURSIVE LowValue(_, _)
LowValue(v, n) == IF n = 0 THEN 0 ELSE v[n - 1] * 2 ^ (n - 1) + LowValue(v, n - 1)

\* v < n for an unsigned long v and an int n >= 0.
BelowInt(v, n) ==
    /\ \A i \in Bits : i >= IntBits - 1 => v[i] = 0
    /\ LowValue(v, IntBits - 1) < n

\* C11: for every address and every s >= 0, b >= 0 with s + b < 64, the
\* set index computed is (A >> b) & (2^s - 1), the tag is A >> (s + b), the
\* set index is below the number of sets allocated, and the block size B
\* is 2^b.
DecodeAsStated ==
    dec.out = "done" =>
        /\ dec.set_index = [i \in Bits |-> IF i < dec.s /\ i + dec.b < LongBits
                                           THEN dec.address[i + dec.b] ELSE 0]
        /\ dec.tag = [i \in Bits |-> IF i + dec.s + dec.b < LongBits
                                     THEN dec.address[i + dec.s + dec.b] ELSE 0]
        /\ BelowInt(dec.set_index, AllocatedSets(dec.S))
        /\ dec.B = [i \in Bits |-> IF i = dec.b THEN 1 ELSE 0]

\* C11 within the int width: the same statement for s and b of at most 30.
DecodeNarrow ==
    (dec.out = "done" /\ dec.s < IntBits - 1 /\ dec.b < IntBits - 1) => DecodeAsStated

----------------------------------------------------------------------------
\* The transpose functions of trans.c, built with NDEBUG (the asserts are
\* compiled out, as when the driver measures).  A[i][j] is the distinct
\* value Src(M, i, j): the functions copy values and never compare them.
\* B starts all 0, which no cell of A holds.  A call is followed up to its
\* return or to its first out-of-bounds access.

\* Largest M and N of the small shapes.
MaxDim == 3

\* The edge of a block of trans_blocking and trans_blocking_diagonal.
BlockEdge == 8
\* The M = N for which transpose_submit calls trans_blocking_diagonal.
DiagonalDim == 32
\* The M = N for which transpose_submit calls trans_blocking.
BlockingDim == 1024

Src(M_, i, j) == i * M_ + j + 1

Faulted(st) == st.oob # "none"

\* v = A[r][c]; B[r2][c2] = v.  A is double[N][M], B is double[M][N].
Copy(st, r, c, r2, c2) ==
    IF ~(r < st.N /\ c < st.M) THEN [st EXCEPT !.oob = "read A"]
    ELSE IF ~(r2 < st.M /\ c2 < st.N) THEN [st EXCEPT !.oob = "write B"]
    ELSE [st EXCEPT !.B[r2][c2] = Src(st.M, r, c)]

\* tmp[k] = A[r][c]
LoadTmp(st, k, r, c) ==
    IF ~(r < st.N /\ c < st.M) THEN [st EXCEPT !.oob = "read A"]
    ELSE [st EXCEPT !.tmp[k] = Src(st.M, r, c)]

\* B[r][c] = tmp[k]
StoreTmp(st, r, c, k) ==
    IF ~(r < st.M /\ c < st.N) THEN [st EXCEPT !.oob = "write B"]
    ELSE [st EXCEPT !.B[r][c] = st.tmp[k]]

RECURSIVE BlockingN(_, _, _, _)
RECURSIVE BlockingM(_, _, _, _)
RECURSIVE BlockingJ(_, _, _)

\* trans_blocking: for (n = j; n < j + 8; n++) B[n][m] = A[m][n], from n on.
BlockingN(st, m, n, j) ==
    IF n >= j + BlockEdge \/ Faulted(st) THEN st
    ELSE BlockingN(Copy(st, m, n, n, m), m, n + 1, j)

\* trans_blocking: for (m = i; m < i + 8; m++), from m on.
BlockingM(st, m, i, j) ==
    IF m >= i + BlockEdge \/ Faulted(st) THEN st
    ELSE BlockingM(BlockingN(st, m, j, j), m + 1, i, j)

\* trans_blocking: for (j = 0; j < M; j += 8), from j on.
BlockingJ(st, i, j) ==
    IF j >= st.M \/ Faulted(st) THEN st
    ELSE BlockingJ(BlockingM(st, i, i, j), i, j + BlockEdge)

\* trans_blocking: one iteration of for (i = 0; i < N; i += 8).
trans_blocking(st) == [BlockingJ(st, st.i, 0) EXCEPT !.i = @ + BlockEdge]

RECURSIVE DiagonalLoad(_, _, _, _)
RECURSIVE DiagonalStore(_, _, _, _)
RECURSIVE DiagonalN(_, _, _, _)
RECURSIVE DiagonalM(_, _, _, _)
RECURSIVE DiagonalJ(_, _, _)

\* trans_blocking_diagonal: tmp[k] = A[m][j + k], for k and the later indices.
DiagonalLoad(st, m, j, k) ==
    IF k >= BlockEdge \/ Faulted(st) THEN st
    ELSE DiagonalLoad(LoadTmp(st, k, m, j + k), m, j, k + 1)

\* trans_blocking_diagonal: B[j + k][m] = tmp[k], for k and the later indices.
DiagonalStore(st, m, j, k) ==
    IF k >= BlockEdge \/ Faulted(st) THEN st
    ELSE DiagonalStore(StoreTmp(st, j + k, m, k), m, j, k + 1)

\* trans_blocking_diagonal: the loop over n of the else branch, from n on.
DiagonalN(st, m, n, j) ==
    IF n >= j + BlockEdge \/ Faulted(st) THEN st
    ELSE DiagonalN(Copy(st, m, n, n, m), m, n + 1, j)

\* trans_blocking_diagonal: for (m = i; m < i + 8; m++), from m on.
DiagonalM(st, m, i, j) ==
    IF m >= i + BlockEdge \/ Faulted(st) THEN st
    ELSE DiagonalM(IF i = j THEN DiagonalStore(DiagonalLoad(st, m, j, 0), m, j, 0)
                   ELSE DiagonalN(st, m, j, j),
                   m + 1, i, j)

\* trans_blocking_diagonal: for (j = 0; j < M; j += 8), from j on.
DiagonalJ(st, i, j) ==
    IF j >= st.M \/ Faulted(st) THEN st
    ELSE DiagonalJ(DiagonalM(st, i, i, j), i, j + BlockEdge)

\* trans_blocking_diagonal: one iteration of for (i = 0; i < N; i += 8).
trans_blocking_diagonal(st) == [DiagonalJ(st, st.i, 0) EXCEPT !.i = @ + BlockEdge]

\* A loop body that copies without transposing: B[i][j] = A[i][j].
BasicCell_Untransposed(st, i, j) == Copy(st, i, j, i, j)

\* trans_basic: B[j][i] = A[i][j]
BasicCell(st, i, j) == Copy(st, i, j, j, i)

RECURSIVE BasicJ(_, _, _)

\* trans_basic: for (j = 0; j < M; j++), from j on.
BasicJ(st, i, j) ==
    IF j >= st.M \/ Faulted(st) THEN st
    ELSE BasicJ(BasicCell(st, i, j), i, j + 1)

\* trans_basic: one iteration of for (i = 0; i < N; i++).
trans_basic(st) == [BasicJ(st, st.i, 0) EXCEPT !.i = @ + 1]

\* trans_tmp: tmp[2 * di + dj] = A[i][j]; B[j][i] = tmp[2 * di + dj]
TmpCell(st, i, j) ==
    LET di == i % 2
        dj == j % 2
        st1 == LoadTmp(st, 2 * di + dj, i, j)
    IN  IF Faulted(st1) THEN st1 ELSE StoreTmp(st1, j, i, 2 * di + dj)

RECURSIVE TmpJ(_, _, _)

\* trans_tmp: for (j = 0; j < M; j++), from j on.
TmpJ(st, i, j) ==
    IF j >= st.M \/ Faulted(st) THEN st
    ELSE TmpJ(TmpCell(st, i, j), i, j + 1)

\* trans_tmp: one iteration of for (i = 0; i < N; i++).
trans_tmp(st) == [TmpJ(st, st.i, 0) EXCEPT !.i = @ + 1]

\* transpose_submit: the function it calls for M and N.
transpose_submit(M_, N_) ==
    IF M_ = N_
    THEN IF M_ = DiagonalDim THEN "trans_blocking_diagonal"
         ELSE IF M_ = BlockingDim THEN "trans_blocking"
         ELSE "trans_basic"
    ELSE "trans_tmp"

\* is_transpose(M, N, A, B)
is_transpose(M_, N_, B_) ==
    \A i \in 0 .. N_ - 1 : \A j \in 0 .. M_ - 1 : Src(M_, i, j) = B_[j][i]

\* The functions registerFunctions hands to the driver.
Registered == {"transpose_submit", "trans_blocking", "trans_blocking_diagonal"}

\* The shapes <<M, N>> the driver calls with: the small ones, one block,
\* two blocks side by side, and the two sizes transpose_submit singles out.
Shapes ==
    ((1 .. MaxDim) \X (1 .. MaxDim))
    \cup {<<BlockEdge, BlockEdge>>, <<2 * BlockEdge, BlockEdge>>,
          <<DiagonalDim, DiagonalDim>>, <<BlockingDim, BlockingDim>>}

\* The calls followed: transpose_submit with every shape, the other two
\* registered functions with every shape but the largest.
Calls ==
    {c \in Registered \X Shapes :
        c[1] = "transpose_submit" \/ c[2] # <<BlockingDim, BlockingDim>>}

InitTrans ==
    /\ Parked
    /\ dec = NoDecode
    /\ \E c \in Calls :
          tr = [pc |-> "call", entry |-> c[1], fn |-> c[1],
                M |-> c[2][1], N |-> c[2][2], i |-> 0,
                B |-> [r \in 0 .. c[2][1] - 1 |-> [q \in 0 .. c[2][2] - 1 |-> 0]],
                tmp |-> [k \in 0 .. BlockEdge - 1 |-> 0],
                oob |-> "none"]

\* What a function does next: stop at an out-of-bounds access, run one
\* iteration of its outer loop, or return.
Advance(st, iteration) ==
    IF Faulted(st) THEN [st EXCEPT !.pc = "fault"]
    ELSE IF st.i < st.N THEN iteration
    ELSE [st EXCEPT !.pc = "ret"]

TransposeSubmit ==
    /\ tr.pc = "call" /\ tr.fn = "transpose_submit"
    /\ tr' = [tr EXCEPT !.fn = transpose_submit(tr.M, tr.N)]
    /\ UNCHANGED <<simVars, dec>>

TransBlocking ==
    /\ tr.pc = "call" /\ tr.fn = "trans_blocking"
    /\ tr' = Advance(tr, trans_blocking(tr))
    /\ UNCHANGED <<simVars, dec>>

TransBlockingDiagonal ==
    /\ tr.pc = "call" /\ tr.fn = "trans_blocking_diagonal"
    /\ tr' = Advance(tr, trans_blocking_diagonal(tr))
    /\ UNCHANGED <<simVars, dec>>

TransBasic ==
    /\ tr.pc = "call" /\ tr.fn = "trans_basic"
    /\ tr' = Advance(tr, trans_basic(tr))
    /\ UNCHANGED <<simVars, dec>>

TransTmp ==
    /\ tr.pc = "call" /\ tr.fn = "trans_tmp"
    /\ tr' = Advance(tr, trans_tmp(tr))
    /\ UNCHANGED <<simVars, dec>>

NextTrans ==
    \/ TransposeSubmit
    \/ TransBlocking
    \/ TransBlockingDiagonal
    \/ TransBasic
    \/ TransTmp

SpecTrans == InitTrans /\ [][NextTrans]_vars

----------------------------------------------------------------------------
\* Properties.

Lines == {<<i, j>> \in (DOMAIN sets) \X (0 .. E - 1) : TRUE}

DirtyLines ==
    {x \in Lines : sets[x[1]][x[2]].valid = 1 /\ sets[x[1]][x[2]].dirty_bit = 1}

\* The line the latest cache_sim call hit, filled or overwrote: before, after.
TouchedBefore == last.old[last.set][last.idx]
TouchedAfter == sets[last.set][last.idx]

\* C1: while the cache is allocated, dirty_bytes is 2^b times the number of
\* lines that are valid and dirty; it has not wrapped below zero and is at
\* most the capacity 2^s * E * 2^b.
DirtyBytesConserved ==
    cache = "alloc" =>
        /\ dirty_bytes = Pow2(b) * Cardinality(DirtyLines)
        /\ dirty_bytes >= 0
        /\ dirty_bytes <= Pow2(s) * E * Pow2(b)

\* A Load has evicted a dirty line while another line stays dirty.
DirtyVictimLoaded ==
    /\ cache = "alloc"
    /\ last.res = "evict" /\ last.kind = "L"
    /\ TouchedBefore.dirty_bit = 1
    /\ dirty_bytes > 0

\* C2: every access has the outcome a true-LRU cache gives it (hit, miss,
\* miss with eviction) and evicts the block true LRU evicts.
MatchesTrueLRU ==
    last.res # "none" =>
        /\ last.res = refLast.res
        /\ last.victim = refLast.victim

\* The lines of the accessed set when the victim is selected: both scans done.
SelectionLines ==
    EmptyScan(HitScan(last.old[last.set], last.tag, E).lines, last.tag, E).lines

LowestMaxIndex(lines) ==
    Min({i \in DOMAIN lines :
            \A j \in DOMAIN lines : lines[j].LRU_counter <= lines[i].LRU_counter})

\* C3: the line an eviction overwrites holds the maximum LRU_counter of its
\* set, and is the lowest-index line that does.
VictimHasMaxCounter ==
    last.res = "evict" => last.idx = LowestMaxIndex(SelectionLines)

\* C4: hits + misses is the number of records simulated, evictions <= misses,
\* and the latest record raised exactly one of hit and miss, by one.
HitMissPartition ==
    /\ hit + miss = nsim
    /\ eviction <= miss
    /\ last.res # "none" =>
          \/ hit = last.g.hit + 1 /\ miss = last.g.miss
          \/ hit = last.g.hit /\ miss = last.g.miss + 1

\* Several records went through, with a hit and an eviction among them.
MixedOutcomes == nsim >= 3 /\ hit >= 1 /\ eviction >= 1

\* C5: an eviction adds 2^b to dirty_evictions iff the victim was dirty,
\* leaves the line dirty iff the access is a Store, and changes dirty_bytes
\* by +2^b (clean victim, Store), -2^b (dirty victim, Load) or 0.
EvictionAccounting ==
    (cache = "alloc" /\ last.res = "evict") =>
        LET B == Pow2(b)
            wasDirty == TouchedBefore.dirty_bit = 1
            store == last.kind = "S"
        IN  /\ dirty_evictions - last.g.dirty_evictions = IF wasDirty THEN B ELSE 0
            /\ (TouchedAfter.dirty_bit = 1) <=> store
            /\ dirty_bytes - last.g.dirty_bytes =
                  IF ~wasDirty /\ store THEN B
                  ELSE IF wasDirty /\ ~store THEN 0 - B
                  ELSE 0

\* A Store has evicted a dirty line.
DirtyVictimStored ==
    /\ cache = "alloc"
    /\ last.res = "evict" /\ last.kind = "S"
    /\ TouchedBefore.dirty_bit = 1

\* C6: a Store hit on a clean line dirties it and adds 2^b to dirty_bytes;
\* every other hit leaves all dirty flags, dirty_bytes and dirty_evictions
\* alone; no hit changes miss, eviction, or any line's tag or valid bit.
HitEffects ==
    (cache = "alloc" /\ last.res = "hit") =>
        LET cleanStore == last.kind = "S" /\ TouchedBefore.dirty_bit = 0
            touched == <<last.set, last.idx>>
        IN  /\ miss = last.g.miss
            /\ eviction = last.g.eviction
            /\ dirty_evictions = last.g.dirty_evictions
            /\ \A x \in Lines :
                  /\ sets[x[1]][x[2]].tag = last.old[x[1]][x[2]].tag
                  /\ sets[x[1]][x[2]].valid = last.old[x[1]][x[2]].valid
                  /\ (x # touched \/ ~cleanStore) =>
                        sets[x[1]][x[2]].dirty_bit = last.old[x[1]][x[2]].dirty_bit
            /\ IF cleanStore
               THEN /\ TouchedAfter.dirty_bit = 1
                    /\ dirty_bytes = last.g.dirty_bytes + Pow2(b)
               ELSE dirty_bytes = last.g.dirty_bytes

\* A Store has hit a line that an earlier Store had already made dirty.
StoreHitOnDirty ==
    /\ cache = "alloc"
    /\ last.res = "hit" /\ last.kind = "S"
    /\ TouchedBefore.dirty_bit = 1
    /\ hit >= 2

Scenario7Ran ==
    /\ s = 1 /\ E = 1 /\ b = 0
    /\ replay = Scenario7

\* C7 as stated: the scenario ends with hits=0, misses=4, evictions=1.
Scenario7AsStated ==
    Scenario7Ran =>
        /\ hit = 0 /\ miss = 4 /\ eviction = 1
        /\ pc = "done" => summary = << Globals >>

\* C7 amended: the scenario ends with hits=0, misses=4, evictions=2 (the
\* final Load 0x0 evicts the block of 0x2).
Scenario7Amended ==
    Scenario7Ran =>
        /\ hit = 0 /\ miss = 4 /\ eviction = 2
        /\ pc = "done" => summary = << Globals >>

\* The scenario was replayed to the end of the trace and reported.
Scenario7Reported == Scenario7Ran /\ pc = "done"

Counters == <<hit, miss, eviction, dirty_bytes, dirty_evictions>>

\* C8: every record read is handed to cache_sim, one call per record, in
\* the order read; a record that is neither 'L' nor 'S' ends the run at
\* once: it changes no line and no counter, nothing is read or simulated
\* after it, and no summary is reported.
BadRecordHalts ==
    /\ [](cache = "alloc" =>
            /\ (nread > 0 /\ rec.kind \notin {"L", "S"}) <=> pc = "exit_trace"
            /\ pc = "exit_trace" => (summary = <<>> /\ nsim = nread - 1)
            /\ (pc = "loop" /\ nread > 0) =>
                  /\ nsim = nread
                  /\ last.kind = rec.kind
                  /\ last.set = SetIndex(rec.addr, s, b)
                  /\ last.tag = Tag(rec.addr, s, b))
    /\ [][/\ pc # "exit_trace"
          /\ pc' = "exit_trace" => UNCHANGED <<sets, Counters, nsim, last>>]_vars

\* A malformed record ended a run that had simulated records before it.
HaltedMidTrace == pc = "exit_trace" /\ nsim >= 2 /\ miss >= 1

\* C9: when cache_init returns NULL no record is simulated and main never
\* reads through the null pointer.
NullCacheNeverUsed ==
    cache = "NULL" => (nsim = 0 /\ pc # "null_deref")

\* C10: when cache_init returns NULL, nothing it allocated is still
\* allocated.
FailedInitLeavesNothing ==
    cache = "NULL" => heap = {}

ValidGeometry == s >= 0 /\ b >= 0 /\ E >= 1

\* C13: a run with E < 1, s < 0 or b < 0 ends with the error exit before the
\* cache is constructed and before any access is simulated; a run with
\* s >= 0, b >= 0, E >= 1 and a trace file named, s = 0 and b = 0 included,
\* is never turned away by the check of the arguments.
GeometryChecked ==
    /\ pc = "exit_invalid" => (cache = "unset" /\ heap = {} /\ nread = 0 /\ nsim = 0)
    /\ pc # "args" =>
          /\ ~ValidGeometry => pc = "exit_invalid"
          /\ (ValidGeometry /\ tracefile # "NULL") => pc # "exit_invalid"

\* A run with s = 0, b = 0 and E = 1 was accepted and has simulated accesses.
SmallestGeometrySimulated ==
    s = 0 /\ b = 0 /\ E = 1 /\ cache = "alloc" /\ nsim >= 2 /\ miss >= 1

\* C12: the outcome of a record is the outcome of every record of the same
\* kind and address whatever its size field says: the same lines, the same
\* five counters; and dirty_bytes moved by 0 or by exactly 2^b.
SizeFieldIgnored ==
    (cache = "alloc" /\ nsim > 0 /\ nsim = nread) =>
        /\ \A r \in Records :
              Bare(r) = Bare(rec) =>
                 LET a == CallArgs(r, s, E, b)
                     c == cache_sim(a.access_type, last.old[a.set_index], a.tag,
                                    a.E, a.b, last.g)
                 IN  /\ sets = [last.old EXCEPT ![a.set_index] = c.lines]
                     /\ Globals = c.g
        /\ dirty_bytes - last.g.dirty_bytes \in {0, Pow2(b), 0 - Pow2(b)}

\* A record whose size field is not the block size has changed dirty_bytes.
OddSizeMovedDirtyBytes ==
    /\ cache = "alloc" /\ nsim >= 2 /\ nsim = nread
    /\ \E r \in Records : Bare(r) = Bare(rec) /\ r.size # Pow2(b)
    /\ dirty_bytes # last.g.dirty_bytes

\* C14: with E = 1, while all accesses so far went to one set with pairwise
\* distinct tags, there is no hit, every access is a miss, every access but
\* the first counts an eviction, and the latest access was a plain miss if
\* it was the first and a miss with eviction otherwise.
DirectMappedThrash ==
    (E = 1 /\ run.ok /\ nsim >= 1) =>
        /\ Cardinality(run.tags) = nsim
        /\ hit = 0
        /\ miss = nsim
        /\ eviction = nsim - 1
        /\ last.res = IF nsim = 1 THEN "miss" ELSE "evict"

\* Three or more accesses with distinct tags went to one direct-mapped set.
ThrashedThrice == E = 1 /\ run.ok /\ nsim >= 3

Scenario15Stored ==
    /\ s = 1 /\ E = 1 /\ b = 0
    /\ nsim = 1
    /\ replay = SubSeq(Scenario15, 1, 1)

Scenario15Ran ==
    /\ s = 1 /\ E = 1 /\ b = 0
    /\ replay = Scenario15

\* C15: with s=1, E=1, b=0 and a fresh cache, [Store 0x0, Load 0x0] leaves
\* dirty_bytes = 1 after the Store and after the Load, and ends with hits=1,
\* misses=1, evictions=0.
Scenario15AsStated ==
    /\ Scenario15Stored => (dirty_bytes = 1 /\ hit = 0 /\ miss = 1 /\ eviction = 0)
    /\ Scenario15Ran =>
          /\ dirty_bytes = 1
          /\ hit = 1 /\ miss = 1 /\ eviction = 0
          /\ pc = "done" => summary = << Globals >>

\* The second scenario was replayed to the end of the trace and reported.
Scenario15Reported == Scenario15Ran /\ pc = "done"

\* The lines of the accessed set before and after the latest access.
OldSet == last.old[last.set]
NewSet == sets[last.set]

HitAgesByOne ==
    (cache = "alloc" /\ last.res = "hit") =>
        /\ NewSet[last.idx].LRU_counter = 0
        /\ \A i \in (0 .. E - 1) \ {last.idx} :
              NewSet[i].LRU_counter = OldSet[i].LRU_counter + 1

\* A hit on the middle line of three, with a valid line below it and an
\* invalid line above it.
HitBetweenLines ==
    /\ cache = "alloc" /\ last.res = "hit"
    /\ E = 3 /\ last.idx = 1
    /\ OldSet[0].valid = 1 /\ OldSet[2].valid = 0
    /\ OldSet[0].LRU_counter > 0

InvalidBefore == {i \in 0 .. E - 1 : OldSet[i].valid = 0}

\* C20: a miss in a set that holds an invalid line installs the block in
\* the lowest-index invalid line (valid set, tag stored); the line ends
\* dirty iff the access is a Store, and then dirty_bytes grows by 2^b;
\* miss grows by 1; eviction and dirty_evictions stay; no other line's tag,
\* valid bit or dirty bit changes.
FillEffects ==
    (cache = "alloc" /\ last.res \in {"miss", "evict"}) =>
        /\ last.res = "miss" <=> InvalidBefore # {}
        /\ last.res = "miss" =>
              /\ last.idx = Min(InvalidBefore)
              /\ TouchedAfter.valid = 1
              /\ TouchedAfter.tag = last.tag
              /\ TouchedAfter.dirty_bit = 1 <=> last.kind = "S"
              /\ dirty_bytes = last.g.dirty_bytes
                                  + (IF last.kind = "S" THEN Pow2(b) ELSE 0)
              /\ miss = last.g.miss + 1
              /\ hit = last.g.hit
              /\ eviction = last.g.eviction
              /\ dirty_evictions = last.g.dirty_evictions
              /\ \A x \in Lines \ {<<last.set, last.idx>>} :
                    /\ sets[x[1]][x[2]].tag = last.old[x[1]][x[2]].tag
                    /\ sets[x[1]][x[2]].valid = last.old[x[1]][x[2]].valid
                    /\ sets[x[1]][x[2]].dirty_bit = last.old[x[1]][x[2]].dirty_bit

\* A Store has filled an invalid line that is not the first of its set,
\* next to a line that is dirty already.
StoreFilledLaterLine ==
    /\ cache = "alloc" /\ last.res = "miss" /\ last.kind = "S"
    /\ last.idx >= 1
    /\ OldSet[0].dirty_bit = 1

\* C16: when transpose_submit returns, B[j][i] = A[i][j] for all
\* 0 <= i < N and 0 <= j < M, whichever of trans_blocking_diagonal,
\* trans_blocking, trans_basic and trans_tmp it called.
SubmitTransposes ==
    (tr.pc = "ret" /\ tr.entry = "transpose_submit") =>
        /\ tr.fn = transpose_submit(tr.M, tr.N)
        /\ is_transpose(tr.M, tr.N, tr.B)

\* transpose_submit has returned from trans_blocking_diagonal.
SubmitReturnedDiagonal ==
    /\ tr.pc = "ret" /\ tr.entry = "transpose_submit"
    /\ tr.fn = "trans_blocking_diagonal"

\* C17: no call of a registered transpose function, whatever M > 0 and
\* N > 0, reads A outside [0,N) x [0,M) or writes B outside [0,M) x [0,N).
\* (No statement of the functions assigns to A.)
StaysInBounds ==
    (tr.pc # "off" /\ tr.entry \in Registered) => tr.oob = "none"

\* The lines of the set accessed last that were valid and held its tag.
Matching == {i \in 0 .. E - 1 : OldSet[i].valid = 1 /\ OldSet[i].tag = last.tag}

\* C21: an access counts as a hit iff some line of its set is valid and
\* holds its tag, and then the lowest such line is the one hit; an access
\* with tag 0 to a set of invalid lines, whose tag fields are 0, is a miss.
HitIffValidTag ==
    last.res # "none" =>
        /\ last.res = "hit" <=> Matching # {}
        /\ hit = last.g.hit + (IF Matching # {} THEN 1 ELSE 0)
        /\ miss = last.g.miss + (IF Matching # {} THEN 0 ELSE 1)
        /\ last.res = "hit" => last.idx = Min(Matching)

\* An access with tag 0 has missed in a set whose lines were all invalid
\* with tag field 0.
ColdTagZeroMissed ==
    /\ last.res = "miss" /\ last.tag = 0 /\ E >= 2
    /\ \A i \in 0 .. E - 1 : OldSet[i].valid = 0 /\ OldSet[i].tag = 0

\* The place of line x in the sequence q of lines, the latest touched first.
Place(q, x) == CHOOSE k \in 1 .. Len(q) : q[k] = x

ValidIn(i) == {j \in 0 .. E - 1 : sets[i][j].valid = 1}

\* C22: in every set the LRU_counters order the valid lines by last use:
\* the valid lines are the lines touched so far, x has a larger counter
\* than y iff x was last touched before y, so the counters of valid lines
\* are pairwise distinct and the line touched last is the only valid line
\* with counter 0.
RecencyOrdersByUse ==
    cache = "alloc" =>
        \A i \in DOMAIN sets :
            /\ ValidIn(i) = Range(order[i])
            /\ \A x \in ValidIn(i) : \A y \in ValidIn(i) :
                  /\ sets[i][x].LRU_counter > sets[i][y].LRU_counter
                        <=> Place(order[i], x) > Place(order[i], y)
                  /\ x # y => sets[i][x].LRU_counter # sets[i][y].LRU_counter
                  /\ sets[i][x].LRU_counter = 0 <=> x = Head(order[i])

\* A full set of three lines has seen a hit and then an eviction.
FullSetReused ==
    /\ cache = "alloc" /\ E = 3
    /\ last.res = "evict" /\ hit >= 1

\* C23: no two valid lines of a set hold the same tag.
NoDuplicateTags ==
    cache = "alloc" =>
        \A i \in DOMAIN sets : \A x \in ValidIn(i) : \A y \in ValidIn(i) :
            sets[i][x].tag = sets[i][y].tag => x = y

\* A block was found again in a line other than line 0 of a full set.
HitBeyondFirstLine ==
    /\ cache = "alloc" /\ E >= 2
    /\ last.res = "hit" /\ last.idx >= 1
    /\ \A j \in 0 .. E - 1 : OldSet[j].valid = 1

\* C24: an access to set i changes lines of set i only: every line of every
\* other set keeps its valid bit, dirty bit, tag and LRU_counter.
OtherSetsUntouched ==
    (cache = "alloc" /\ last.res # "none") =>
        /\ nsim = nread => last.set = SetIndex(rec.addr, s, b)
        /\ \A i \in DOMAIN sets : i # last.set => sets[i] = last.old[i]

\* An eviction in one set while the other set holds a dirty line.
EvictedBesideDirtySet ==
    /\ cache = "alloc" /\ s = 1
    /\ last.res = "evict"
    /\ \E j \in 0 .. E - 1 : sets[1 - last.set][j].dirty_bit = 1

ValidLines == {x \in Lines : sets[x[1]][x[2]].valid = 1}

\* C25: the number of valid lines of the cache is miss - eviction; an
\* eviction is counted only on a miss in a set whose lines are all valid,
\* and a miss in a set with an invalid line adds one valid line.
ValidLinesCounted ==
    cache = "alloc" =>
        /\ Cardinality(ValidLines) = miss - eviction
        /\ last.res = "evict" =>
              /\ \A j \in 0 .. E - 1 : OldSet[j].valid = 1
              /\ eviction = last.g.eviction + 1
              /\ miss = last.g.miss + 1
        /\ last.res = "miss" =>
              /\ \E j \in 0 .. E - 1 : OldSet[j].valid = 0
              /\ eviction = last.g.eviction
              /\ Cardinality({j \in 0 .. E - 1 : NewSet[j].valid = 1})
                    = Cardinality({j \in 0 .. E - 1 : OldSet[j].valid = 1}) + 1

\* After evictions in one set the cache still holds an invalid line.
EvictedWhileNotFull ==
    /\ cache = "alloc"
    /\ eviction >= 2
    /\ Cardinality(ValidLines) < Cardinality(Lines)

\* C26: in every set the valid lines are the lines 0 .. k-1 for some k, a
\* line that was valid before the latest access is valid after it, and
\* every invalid line is clean.
ValidPrefix ==
    cache = "alloc" =>
        /\ \A i \in DOMAIN sets : \A j \in 0 .. E - 1 :
              /\ sets[i][j].valid \in {0, 1}
              /\ sets[i][j].valid = 1 => \A k \in 0 .. j - 1 : sets[i][k].valid = 1
              /\ sets[i][j].valid = 0 => sets[i][j].dirty_bit = 0
        /\ last.res # "none" =>
              \A x \in Lines :
                  last.old[x[1]][x[2]].valid = 1 => sets[x[1]][x[2]].valid = 1

\* A set of three lines holds two valid lines, the second one dirty, and
\* an invalid line.
PartlyFilledSet ==
    /\ cache = "alloc" /\ E = 3
    /\ \E i \in DOMAIN sets :
          /\ ValidIn(i) = {0, 1}
          /\ sets[i][1].dirty_bit = 1
    /\ nsim >= 3

\* C27: dirty_bytes + dirty_evictions is at most 2^b times the number of
\* Stores simulated; while no Store was simulated every line is clean and
\* both are 0; dirty_evictions never decreases.
StoresBoundDirty ==
    nsim > 0 =>
        /\ nstore <= nsim
        /\ dirty_bytes + dirty_evictions <= Pow2(b) * nstore
        /\ nstore = 0 =>
              /\ dirty_bytes = 0 /\ dirty_evictions = 0
              /\ cache = "alloc" => DirtyLines = {}
        /\ dirty_evictions >= last.g.dirty_evictions
        /\ last.g.dirty_bytes + last.g.dirty_evictions
              <= Pow2(b) * (IF last.kind = "S" THEN nstore - 1 ELSE nstore)

\* Stores that hit a dirty line or overwrote one: the bound is not reached,
\* and dirty bytes were written back.
StoresBelowBound ==
    /\ nstore >= 3
    /\ dirty_evictions > 0
    /\ dirty_bytes + dirty_evictions < Pow2(b) * nstore

\* C28: on a run that reaches the end of the trace cache_free runs once,
\* on the cache cache_init built: it frees the 2^s line arrays in index
\* order, each once, then the set array, then the cache struct; nothing of
\* the cache is left or used afterwards, and the summary reports the
\* counters.
FreedOnceInOrder ==
    /\ [](pc = "done" <=> cache = "freed")
    /\ [](pc = "done" =>
            /\ Len(freed) = Pow2(s) + 2
            /\ \A k \in 1 .. Pow2(s) : freed[k] = LinesBlock(k - 1)
            /\ freed[Pow2(s) + 1] = SetsBlock
            /\ freed[Pow2(s) + 2] = CacheBlock
            /\ heap = {}
            /\ sets = <<>>
            /\ summary = << Globals >>)
    /\ [][/\ cache' = "freed" => (cache = "alloc" /\ pc = "loop" /\ freed = <<>>)
          /\ cache # "freed"]_vars

\* A run over two sets has simulated records, reached the end of the trace
\* and reported.
TwoSetsFreed == pc = "done" /\ s = 1 /\ nsim >= 2 /\ Len(freed) = 4

====
